---- MODULE Spec2Model ----
(***************************************************************************)
(* KVStore: the MVCC key-value engine of store.py (class Store), the       *)
(* SQLite mirror it loads from and flushes to, and the HTTP handlers of    *)
(* api.py that call the one shared engine.                                 *)
(*                                                                         *)
(* Python values are written as the strings of their literals: "1" is the  *)
(* int 1, "'1'" is the str '1', "None" is None.  DELETED is the engine's   *)
(* private tombstone object (self._DELETED).                               *)
(***************************************************************************)
EXTENDS Integers, Sequences, FiniteSets, TLC

\* ------------------------------------------------------------ input domains
Keys == {"a", "b"}
None == "None"
Values == {"1", None}
DELETED == "<DELETED>"
Actors == {"A", "B"}

\* The model writes only while the committed versions and the pending overlay
\* entries together stay within MaxClock, so no commit is cut off by the bound.
MaxClock == 2
\* Deepest transaction nesting the model opens.
MaxDepth == 2

VARIABLES
    store,   \* the Store object: its fields, store.py:17-23
    kv,      \* the rows of table kv in the SQLite file: key -> value (TEXT)
    last,    \* the latest call other than a read, and its outcome
    scene,   \* how far the latest calls follow a two-actor scenario (SceneNext)
    saved,   \* per open frame, what get and snapshot() returned before its begin()
    synced   \* flush_to_sqlite() wrote the mirror after the latest committed write

vars == <<store, kv, last, scene, saved, synced>>

\* ------------------------------------------------------------ Python dicts
\* A dict is the sequence of its <<key, value>> items in insertion order.
DictKeys(d) == {d[i][1] : i \in DOMAIN d}

DictGet(d, k) == d[CHOOSE i \in DOMAIN d : d[i][1] = k][2]

\* d[k] = v: an existing key keeps its place, a new key goes last.
DictSet(d, k, v) ==
    IF k \in DictKeys(d)
    THEN [i \in DOMAIN d |-> IF d[i][1] = k THEN <<k, v>> ELSE d[i]]
    ELSE Append(d, <<k, v>>)

\* An append that starts the chain over: self._versions[key] = [entry].
SetDefaultReplace(versions, key, entry) ==
    [k \in (DOMAIN versions) \cup {key} |->
        IF k = key THEN <<entry>> ELSE versions[k]]

\* self._versions.setdefault(key, []).append(entry)
SetDefaultAppend(versions, key, entry) ==
    IF key \in DOMAIN versions
    THEN [versions EXCEPT ![key] = Append(@, entry)]
    ELSE versions @@ (key :> <<entry>>)

\* A mapping without key k (dict.pop(k, None), DELETE FROM kv WHERE key=k).
Without(f, k) == [x \in (DOMAIN f) \ {k} |-> f[x]]

\* A mapping with k bound to v (result[k] = v, REPLACE INTO kv).
With(f, k, v) == [x \in (DOMAIN f) \cup {k} |-> IF x = k THEN v ELSE f[x]]

\* What a TEXT column keeps of a bound Python value: an int is stored as its
\* decimal text, a str as it is, None as NULL (read back as None).
SqlText(v) == IF v = "1" THEN "'1'" ELSE v

\* ------------------------------------------------------------ MVCC helpers
NoEntry == <<>>

_latest_committed(self, key) ==
    IF key \in DOMAIN self.versions /\ Len(self.versions[key]) > 0
    THEN self.versions[key][Len(self.versions[key])]
    ELSE NoEntry

RECURSIVE ScanBack(_, _, _)
ScanBack(chain, i, ts) ==
    IF i = 0 THEN None
    ELSE IF chain[i][1] <= ts
         THEN (IF chain[i][2] = DELETED THEN None ELSE chain[i][2])
         ELSE ScanBack(chain, i - 1, ts)

_committed_at_or_before(self, key, ts) ==
    IF key \notin DOMAIN self.versions \/ Len(self.versions[key]) = 0
    THEN None
    ELSE ScanBack(self.versions[key], Len(self.versions[key]), ts)

RECURSIVE _merge_keeps_parent(_, _)
\* A merge in which a key the parent already holds keeps the parent's entry
\* (dst.setdefault(k, v) for dst[k] = v).
_merge_keeps_parent(src, dst) ==
    IF src = <<>> THEN dst
    ELSE _merge_keeps_parent(Tail(src),
            IF Head(src)[1] \in DictKeys(dst) THEN dst
            ELSE DictSet(dst, Head(src)[1], Head(src)[2]))

RECURSIVE _merge_overlay_into(_, _)
_merge_overlay_into(src, dst) ==
    IF src = <<>> THEN dst
    ELSE _merge_overlay_into(Tail(src), DictSet(dst, Head(src)[1], Head(src)[2]))

Top(stack) == stack[Len(stack)]
Pop(stack) == SubSeq(stack, 1, Len(stack) - 1)

\* ------------------------------------------------------------ constructor
RECURSIVE LoadItems_stamps_old(_, _)
\* Appending that stamps each entry with the clock as it was before the
\* increment (the append placed before self._clock += 1).
LoadItems_stamps_old(self, items) ==
    IF items = <<>> THEN self
    ELSE LoadItems_stamps_old(
            [self EXCEPT !.clock = @ + 1,
                         !.versions = SetDefaultAppend(@, Head(items)[1],
                                          <<self.clock, Head(items)[2]>>)],
            Tail(items))

RECURSIVE LoadItems(_, _)
LoadItems(self, items) ==
    IF items = <<>> THEN self
    ELSE LoadItems(
            [self EXCEPT !.clock = @ + 1,
                         !.versions = SetDefaultAppend(@, Head(items)[1],
                                          <<self.clock + 1, Head(items)[2]>>)],
            Tail(items))

\* Store(initial, sqlite_path): rows are the items SELECT key, value FROM kv
\* yields, in the order it yields them; initial is the seed dict.
StoreInit(initial, sqlite_path, rows) ==
    LET empty == [versions |-> <<>>, tx_stack |-> <<>>, snapshots |-> <<>>,
                  clock |-> 0, sqlite_conn |-> sqlite_path,
                  sqlite_path |-> sqlite_path]
        loaded == IF sqlite_path THEN LoadItems(empty, rows) ELSE empty
    IN  LoadItems(loaded, initial)

\* ------------------------------------------------------------ KV API
\* set() writing into the outermost overlay (index 0 for index -1).
set_outermost(self, key, value) ==
    IF self.tx_stack # <<>>
    THEN [self EXCEPT !.tx_stack[1] = DictSet(@, key, value)]
    ELSE [self EXCEPT !.clock = @ + 1,
                      !.versions = SetDefaultAppend(@, key, <<self.clock + 1, value>>)]

\* set() that stamps the new version without advancing the clock.
set_without_tick(self, key, value) ==
    IF self.tx_stack # <<>>
    THEN [self EXCEPT !.tx_stack[Len(self.tx_stack)] = DictSet(@, key, value)]
    ELSE [self EXCEPT !.versions = SetDefaultAppend(@, key, <<self.clock, value>>)]

\* set() that commits at once even while a transaction is open (the
\* autocommit branch taken unconditionally).
set_commits_while_open(self, key, value) ==
    [self EXCEPT !.clock = @ + 1,
                 !.versions = SetDefaultAppend(@, key, <<self.clock + 1, value>>)]

set(self, key, value) ==
    IF self.tx_stack # <<>>
    THEN [self EXCEPT !.tx_stack[Len(self.tx_stack)] = DictSet(@, key, value)]
    ELSE [self EXCEPT !.clock = @ + 1,
                      !.versions = SetDefaultAppend(@, key, <<self.clock + 1, value>>)]

RECURSIVE OverlayLookup(_, _, _)
\* The innermost overlay, from frame i down, that holds key (0: none does).
OverlayLookup(stack, i, key) ==
    IF i = 0 THEN 0
    ELSE IF key \in DictKeys(stack[i]) THEN i
         ELSE OverlayLookup(stack, i - 1, key)

get(self, key, default) ==
    LET hit == OverlayLookup(self.tx_stack, Len(self.tx_stack), key) IN
    IF hit > 0
    THEN LET val == DictGet(self.tx_stack[hit], key)
         IN  IF val = DELETED THEN default ELSE val
    ELSE IF self.tx_stack # <<>>
    THEN LET val == _committed_at_or_before(self, key, Top(self.snapshots))
         IN  IF val = None THEN default ELSE val
    ELSE LET latest == _latest_committed(self, key)
         IN  IF latest = NoEntry THEN default
             ELSE IF latest[2] = DELETED THEN default ELSE latest[2]

\* delete() that, inside a transaction, models deletion by absence: it drops
\* the overlay's entry for key (self._tx_stack[-1].pop(key, None)) and writes
\* no tombstone.
delete_drops_pending(self, key) ==
    IF self.tx_stack # <<>>
    THEN [self EXCEPT !.tx_stack[Len(self.tx_stack)] =
                          SelectSeq(@, LAMBDA item : item[1] # key)]
    ELSE [self EXCEPT !.clock = @ + 1,
                      !.versions = SetDefaultAppend(@, key, <<self.clock + 1, DELETED>>)]

delete(self, key) ==
    IF self.tx_stack # <<>>
    THEN [self EXCEPT !.tx_stack[Len(self.tx_stack)] = DictSet(@, key, DELETED)]
    ELSE [self EXCEPT !.clock = @ + 1,
                      !.versions = SetDefaultAppend(@, key, <<self.clock + 1, DELETED>>)]

\* ------------------------------------------------------------ transactions
begin(self) ==
    [self EXCEPT !.tx_stack = Append(@, <<>>),
                 !.snapshots = Append(@, self.clock)]

RECURSIVE FirstConflict_not_strict(_, _, _)
\* A conflict check that also rejects a latest committed entry stamped exactly
\* snap_ts (latest_ts >= snap_ts for latest_ts > snap_ts).
FirstConflict_not_strict(self, top, snap_ts) ==
    IF top = <<>> THEN <<>>
    ELSE LET latest == _latest_committed(self, Head(top)[1])
         IN  IF latest # NoEntry /\ latest[1] >= snap_ts
             THEN <<Head(top)[1]>>
             ELSE FirstConflict_not_strict(self, Tail(top), snap_ts)

\* The first key of the popped overlay whose latest committed entry is newer
\* than snap_ts, as a one-element sequence; <<>> when there is none.
RECURSIVE FirstConflict(_, _, _)
FirstConflict(self, top, snap_ts) ==
    IF top = <<>> THEN <<>>
    ELSE LET latest == _latest_committed(self, Head(top)[1])
         IN  IF latest # NoEntry /\ latest[1] > snap_ts
             THEN <<Head(top)[1]>>
             ELSE FirstConflict(self, Tail(top), snap_ts)

\* A nested commit that puts the child overlay in the place of the parent's.
NestedCommit_replaces_parent(popped, top) ==
    [self |-> [popped EXCEPT !.tx_stack[Len(popped.tx_stack)] = top],
     exc |-> "none"]

\* Nested commit: the popped overlay is merged into the new innermost one.
NestedCommit(popped, top) ==
    [self |-> [popped EXCEPT !.tx_stack[Len(popped.tx_stack)] =
                                 _merge_overlay_into(top, @)],
     exc |-> "none"]

RECURSIVE LiveItems(_)
LiveItems(items) ==
    IF items = <<>> THEN <<>>
    ELSE IF Head(items)[2] = DELETED THEN LiveItems(Tail(items))
         ELSE <<Head(items)>> \o LiveItems(Tail(items))

\* An outer commit that appends the values of the overlay and skips its
\* tombstones.
OuterCommit_skips_tombstones(popped, top, snap_ts) ==
    IF FirstConflict(popped, top, snap_ts) # <<>>
    THEN [self |-> popped, exc |-> "WriteConflict"]
    ELSE [self |-> LoadItems(popped, LiveItems(top)), exc |-> "none"]

\* Outermost commit: the conflict check over the popped overlay, then one
\* appended version per item.
OuterCommit(popped, top, snap_ts) ==
    IF FirstConflict(popped, top, snap_ts) # <<>>
    THEN [self |-> popped, exc |-> "WriteConflict"]
    ELSE [self |-> LoadItems(popped, top), exc |-> "none"]

\* commit() that returns quietly when no transaction is open.
commit_silent_when_empty(self) ==
    IF self.tx_stack = <<>>
    THEN [self |-> self, exc |-> "none"]
    ELSE LET popped == [self EXCEPT !.tx_stack = Pop(@), !.snapshots = Pop(@)]
         IN  IF popped.tx_stack # <<>>
             THEN NestedCommit(popped, Top(self.tx_stack))
             ELSE OuterCommit(popped, Top(self.tx_stack), Top(self.snapshots))

\* commit(): the engine afterwards and the exception raised ("none": returned).
commit(self) ==
    IF self.tx_stack = <<>>
    THEN [self |-> self, exc |-> "NoActiveTransaction"]
    ELSE LET popped == [self EXCEPT !.tx_stack = Pop(@), !.snapshots = Pop(@)]
         IN  IF popped.tx_stack # <<>>
             THEN NestedCommit(popped, Top(self.tx_stack))
             ELSE OuterCommit(popped, Top(self.tx_stack), Top(self.snapshots))

\* rollback() that pops the overlay and leaves its snapshot timestamp behind.
rollback_keeps_snapshot(self) ==
    IF self.tx_stack = <<>>
    THEN [self |-> self, exc |-> "NoActiveTransaction"]
    ELSE [self |-> [self EXCEPT !.tx_stack = Pop(@)], exc |-> "none"]

rollback(self) ==
    IF self.tx_stack = <<>>
    THEN [self |-> self, exc |-> "NoActiveTransaction"]
    ELSE [self |-> [self EXCEPT !.tx_stack = Pop(@), !.snapshots = Pop(@)],
          exc |-> "none"]

\* ------------------------------------------------------------ helpers
in_transaction(self) == self.tx_stack # <<>>

\* The committed projection snapshot() starts from.
Projection(self) ==
    IF self.tx_stack # <<>>
    THEN LET seen == {k \in DOMAIN self.versions :
                        _committed_at_or_before(self, k, Top(self.snapshots)) # None}
         IN  [k \in seen |-> _committed_at_or_before(self, k, Top(self.snapshots))]
    ELSE LET live == {k \in DOMAIN self.versions :
                        self.versions[k][Len(self.versions[k])][2] # DELETED}
         IN  [k \in live |-> self.versions[k][Len(self.versions[k])][2]]

RECURSIVE ApplyOverlay(_, _)
ApplyOverlay(result, overlay) ==
    IF overlay = <<>> THEN result
    ELSE ApplyOverlay(
            IF Head(overlay)[2] = DELETED
            THEN Without(result, Head(overlay)[1])
            ELSE With(result, Head(overlay)[1], Head(overlay)[2]),
            Tail(overlay))

RECURSIVE ApplyOverlays(_, _)
ApplyOverlays(result, stack) ==
    IF stack = <<>> THEN result
    ELSE ApplyOverlays(ApplyOverlay(result, Head(stack)), Tail(stack))

\* snapshot(): the dict returned, as a mapping (dict equality ignores order).
snapshot(self) == ApplyOverlays(Projection(self), self.tx_stack)

\* A flush that writes what snapshot() returns, pending overlay entries
\* included, for the latest committed entry of each chain.
flush_writes_snapshot(self, rows) ==
    IF ~self.sqlite_conn THEN rows
    ELSE LET snap == snapshot(self)
             touched == (DOMAIN self.versions) \cup
                        UNION {DictKeys(self.tx_stack[i]) : i \in DOMAIN self.tx_stack}
         IN  [k \in ((DOMAIN rows) \ touched) \cup DOMAIN snap |->
                 IF k \in DOMAIN snap THEN SqlText(snap[k]) ELSE rows[k]]

\* A flush guarded by the path the engine was given, not by the connection
\* (if not self._sqlite_path: return), so that it still writes after close().
flush_when_closed(self, rows) ==
    IF ~self.sqlite_path THEN rows
    ELSE LET live == {k \in DOMAIN self.versions :
                        self.versions[k][Len(self.versions[k])][2] # DELETED}
         IN  [k \in ((DOMAIN rows) \ DOMAIN self.versions) \cup live |->
                 IF k \in live
                 THEN SqlText(self.versions[k][Len(self.versions[k])][2])
                 ELSE rows[k]]

\* flush_to_sqlite(): the rows of kv afterwards.
flush_to_sqlite(self, rows) ==
    IF ~self.sqlite_conn THEN rows
    ELSE LET live == {k \in DOMAIN self.versions :
                        self.versions[k][Len(self.versions[k])][2] # DELETED}
         IN  [k \in ((DOMAIN rows) \ DOMAIN self.versions) \cup live |->
                 IF k \in live
                 THEN SqlText(self.versions[k][Len(self.versions[k])][2])
                 ELSE rows[k]]

close(self) == [self EXCEPT !.sqlite_conn = FALSE]

\* ------------------------------------------------------------ observers
Depth == Len(store.tx_stack)

RECURSIVE Pending(_)
\* The overlay entries waiting in a transaction stack.
Pending(stack) == IF stack = <<>> THEN 0 ELSE Len(Head(stack)) + Pending(Tail(stack))

\* What a caller sees now: get(k) for every key, and snapshot().
View(self) == [get |-> [k \in Keys |-> get(self, k, None)],
               snapshot |-> snapshot(self)]

\* The writing call that led here (of a handler that makes two, the second):
\* the method, its key argument ("-": none), the exception it raised ("none":
\* it returned) and the size of the overlay a commit or rollback popped.
Call(op, key, exc, n) == [op |-> op, key |-> key, exc |-> exc, n |-> n]

\* The engine has no notion of a caller (api.py:4 shares one Store among all
\* clients), so the actor of a call is recorded beside the engine: scene follows
\* the calls as long as they spell "A opens a transaction, then B sets k, then
\* A sets k, then A commits", or "A opens a transaction, then A writes k".
SceneNext(op, actor, key) ==
    IF op = "begin" /\ actor = "A" /\ Depth = 0 THEN "A:begin"
    ELSE IF scene = "A:begin" /\ op = "set" /\ actor = "B" THEN "A:begin B:set"
    ELSE IF scene = "A:begin" /\ op \in {"set", "delete"} /\ actor = "A"
         THEN "A:begin A:write"
    ELSE IF scene = "A:begin B:set" /\ op = "set" /\ actor = "A" /\ key = last.key
         THEN "A:begin B:set A:set"
    ELSE IF scene = "A:begin B:set A:set" /\ op = "commit" /\ actor = "A"
         THEN "A:begin B:set A:set A:commit"
    ELSE "-"

\* The orders in which SELECT may yield the rows of kv.
RowOrders(rows) ==
    {o \in [1..Cardinality(DOMAIN rows) -> DOMAIN rows] :
        \A i, j \in DOMAIN o : i # j => o[i] # o[j]}

RowItems(rows, order) == [i \in DOMAIN order |-> <<order[i], rows[order[i]]>>]

\* Mirrors an engine may be constructed over: any rows earlier engines left.
Mirrors == UNION {[S -> {SqlText(v) : v \in Values}] : S \in SUBSET Keys}

\* Seed dicts (the initial argument) the model constructs engines with.
Seeds == {<<>>, <<<<"a", "1">>>>}

\* The model makes a write only within its bound.
CanWrite(key) ==
    IF Depth = 0 THEN store.clock < MaxClock
    ELSE \/ key \in DictKeys(Top(store.tx_stack))
         \/ store.clock + Pending(store.tx_stack) < MaxClock

\* ------------------------------------------------------------ state machine
Init ==
    \E rows \in Mirrors, path \in BOOLEAN, initial \in Seeds :
        \E order \in RowOrders(rows) :
            /\ kv = rows
            /\ store = StoreInit(initial, path, RowItems(rows, order))
            /\ last = Call("init", "-", "none", 0)
            /\ scene = "-"
            /\ saved = <<>>
            /\ synced = FALSE

\* store.set(key, value), called on the engine (test_store.py:20).
Set(actor, key, value) ==
    /\ CanWrite(key)
    /\ store' = set(store, key, value)
    /\ last' = Call("set", key, "none", 0)
    /\ scene' = SceneNext("set", actor, key)
    /\ synced' = (synced /\ Depth > 0)
    /\ UNCHANGED <<kv, saved>>

\* store.delete(key), called on the engine (test_store.py:26).
Delete(actor, key) ==
    /\ CanWrite(key)
    /\ store' = delete(store, key)
    /\ last' = Call("delete", key, "none", 0)
    /\ scene' = SceneNext("delete", actor, key)
    /\ synced' = (synced /\ Depth > 0)
    /\ UNCHANGED <<kv, saved>>

\* store.get(key): GET /get/<key>. It returns get(store, key, None) and writes
\* no field of the engine, so it leaves no trace in last either.
Get(key) == key \in Keys /\ UNCHANGED vars

\* store.snapshot(): GET /snapshot. It returns snapshot(store) and writes no
\* field of the engine.
Snapshot == UNCHANGED vars

\* store.begin(): POST /begin.
Begin(actor) ==
    /\ Depth < MaxDepth
    /\ store' = begin(store)
    /\ last' = Call("begin", "-", "none", 0)
    /\ scene' = SceneNext("begin", actor, "-")
    /\ saved' = Append(saved, View(store))
    /\ UNCHANGED <<kv, synced>>

\* store.commit(), called on the engine (test_store.py:34).
Commit(actor) ==
    /\ store' = commit(store).self
    /\ last' = Call("commit", "-", commit(store).exc,
                    IF Depth > 0 THEN Len(Top(store.tx_stack)) ELSE 0)
    /\ scene' = SceneNext("commit", actor, "-")
    /\ saved' = IF Depth > 0 THEN Pop(saved) ELSE saved
    /\ synced' = (synced /\ store'.versions = store.versions)
    /\ UNCHANGED kv

\* store.rollback(): POST /rollback.
Rollback ==
    /\ store' = rollback(store).self
    /\ last' = Call("rollback", "-", rollback(store).exc,
                    IF Depth > 0 THEN Len(Top(store.tx_stack)) ELSE 0)
    /\ scene' = "-"
    /\ saved' = IF Depth > 0 THEN Pop(saved) ELSE saved
    /\ UNCHANGED <<kv, synced>>

\* store.flush_to_sqlite(), called on the engine (test_store.py:66).
Flush ==
    /\ kv' = flush_to_sqlite(store, kv)
    /\ last' = Call("flush", "-", "none", 0)
    /\ scene' = "-"
    /\ synced' = (synced \/ store.sqlite_conn)
    /\ UNCHANGED <<store, saved>>

\* store.close(), called on the engine (test_store.py:14).
Close ==
    /\ store' = close(store)
    /\ last' = Call("close", "-", "none", 0)
    /\ scene' = "-"
    /\ UNCHANGED <<kv, saved, synced>>

\* Store(sqlite_path=...) over the same file: the engine that replaces this one.
Reopen ==
    /\ store.sqlite_path
    /\ \E order \in RowOrders(kv) :
          store' = StoreInit(<<>>, TRUE, RowItems(kv, order))
    /\ last' = Call("init", "-", "none", 0)
    /\ scene' = "-"
    /\ saved' = <<>>
    /\ synced' = FALSE
    /\ UNCHANGED kv

\* POST /set: store.set(key, value), then store.flush_to_sqlite().
SetKey(key, value) ==
    /\ CanWrite(key)
    /\ store' = set(store, key, value)
    /\ kv' = flush_to_sqlite(store', kv)
    /\ last' = Call("flush", "-", "none", 0)
    /\ scene' = "-"
    /\ synced' = ((synced /\ Depth > 0) \/ store.sqlite_conn)
    /\ UNCHANGED saved

\* DELETE /delete/<key>: store.delete(key), then store.flush_to_sqlite().
DeleteKey(key) ==
    /\ CanWrite(key)
    /\ store' = delete(store, key)
    /\ kv' = flush_to_sqlite(store', kv)
    /\ last' = Call("flush", "-", "none", 0)
    /\ scene' = "-"
    /\ synced' = ((synced /\ Depth > 0) \/ store.sqlite_conn)
    /\ UNCHANGED saved

\* POST /commit: store.commit(), then store.flush_to_sqlite() unless the commit
\* raised (answered 409).
CommitTx ==
    /\ store' = commit(store).self
    /\ kv' = IF commit(store).exc = "none" THEN flush_to_sqlite(store', kv) ELSE kv
    /\ last' = IF commit(store).exc = "none"
               THEN Call("flush", "-", "none", 0)
               ELSE Call("commit", "-", commit(store).exc,
                         IF Depth > 0 THEN Len(Top(store.tx_stack)) ELSE 0)
    /\ scene' = "-"
    /\ saved' = IF Depth > 0 THEN Pop(saved) ELSE saved
    /\ synced' = IF commit(store).exc = "none"
                 THEN (synced /\ store'.versions = store.versions) \/ store.sqlite_conn
                 ELSE synced

\* POST /close: store.flush_to_sqlite(), then store.close().
CloseStore ==
    /\ kv' = flush_to_sqlite(store, kv)
    /\ store' = close(store)
    /\ last' = Call("close", "-", "none", 0)
    /\ scene' = "-"
    /\ synced' = (synced \/ store.sqlite_conn)
    /\ UNCHANGED saved

Next ==
    \/ \E actor \in Actors, key \in Keys, value \in Values : Set(actor, key, value)
    \/ \E actor \in Actors, key \in Keys : Delete(actor, key)
    \/ \E key \in Keys : Get(key)
    \/ Snapshot
    \/ \E actor \in Actors : Begin(actor)
    \/ \E actor \in Actors : Commit(actor)
    \/ Rollback
    \/ Flush
    \/ Close
    \/ Reopen
    \/ \E key \in Keys, value \in Values : SetKey(key, value)
    \/ \E key \in Keys : DeleteKey(key)
    \/ CommitTx
    \/ CloseStore

Spec == Init /\ [][Next]_vars

\* ------------------------------------------------------------ claims
ChainLen(self, k) == IF k \in DOMAIN self.versions THEN Len(self.versions[k]) ELSE 0

\* What a read resolving to payload v returns: a Tombstone reads as absent.
Visible(v) == IF v = DELETED THEN None ELSE v

\* C1: a rollback() of an open transaction leaves get(k), for every key k, and
\* snapshot() exactly as they were just before the begin() that opened it,
\* whatever set, delete and balanced nested begin/commit/rollback came between;
\* the frames below the one rolled back keep their overlays.
C1_RollbackRestoresView ==
    [][(last'.op = "rollback" /\ Depth > 0 /\ store' # store) =>
          /\ last'.exc = "none"
          /\ View(store') = Top(saved)
          /\ store'.tx_stack = SubSeq(store.tx_stack, 1, Depth - 1)]_vars

\* An inner rollback that discarded pending writes while the outer overlay
\* holds writes of its own.
C1_Witness ==
    /\ last.op = "rollback" /\ last.exc = "none" /\ last.n > 0
    /\ Depth = 1 /\ Len(Top(store.tx_stack)) > 0

\* C2: after an outer commit() of overlay W that succeeds, get(k) returns W[k]
\* for every key k of W (absent when W[k] is the Tombstone), and the chain of
\* every key of W is one entry longer.
C2_OuterCommitPublishes ==
    [][(last'.op = "commit" /\ Depth = 1 /\ store' # store /\ last'.exc = "none") =>
          \A k \in DictKeys(Top(store.tx_stack)) :
              /\ get(store', k, None) = Visible(DictGet(Top(store.tx_stack), k))
              /\ ChainLen(store', k) = ChainLen(store, k) + 1]_vars

\* An outer commit that published a Tombstone over a committed value.
C2_Witness ==
    /\ last.op = "commit" /\ last.exc = "none" /\ Depth = 0 /\ last.n >= 1
    /\ \E k \in DOMAIN store.versions :
          /\ Len(store.versions[k]) >= 2
          /\ store.versions[k][Len(store.versions[k])][2] = DELETED

\* C3: begin() by A; set(k, "new") by B; set(k, "tx") by A; commit() by A: the
\* set by B creates a committed version of k newer than the transaction's
\* snapshot_ts, and the commit fails with WriteConflict.
C3_SecondActorConflicts ==
    /\ scene \in {"A:begin B:set", "A:begin B:set A:set"} =>
          /\ _latest_committed(store, last.key) # NoEntry
          /\ _latest_committed(store, last.key)[1] > Top(store.snapshots)
    /\ scene = "A:begin B:set A:set A:commit" => last.exc = "WriteConflict"

\* The engine as an actor with no open transaction is to see it: the committed
\* state alone.
Committed(self) == [self EXCEPT !.tx_stack = <<>>, !.snapshots = <<>>]

\* C4: a set or delete A makes inside A's open transaction is not observable
\* by another actor through get before A's outermost commit: B's get(k),
\* which is the engine's one get (api.py:18), returns the committed value.
C4_WritesInvisibleToOthers ==
    scene = "A:begin A:write" =>
        \A k \in Keys : get(store, k, None) = get(Committed(store), k, None)

\* C5: commit() and rollback() on an empty transaction stack raise
\* NoActiveTransaction and change nothing: clock, chains, both stacks, the
\* connection and the mirror stay as they were.
C5_NoActiveTransaction ==
    [][(last'.op \in {"commit", "rollback"} /\ Depth = 0) =>
          /\ last'.exc = "NoActiveTransaction"
          /\ store' = store
          /\ kv' = kv]_vars

\* A commit() refused on an engine that holds committed versions.
C5_Witness ==
    /\ last.op = "commit" /\ last.exc = "NoActiveTransaction"
    /\ Depth = 0 /\ store.clock > 0

\* C6: a nested commit merges the child overlay into the parent's with
\* last-write-wins (the child's entry, value or Tombstone, replaces the
\* parent's), raises nothing, leaves clock and chains alone, and get(k) returns
\* for every key the same just after it as just before; the outer commit that
\* follows commits what the merged overlay holds.
C6_NestedCommitMerges ==
    [][(last'.op = "commit" /\ Depth > 0 /\ store' # store) =>
          IF Depth > 1
          THEN LET child == Top(store.tx_stack)
                   parent == store.tx_stack[Depth - 1]
                   merged == Top(store'.tx_stack)
               IN  /\ last'.exc = "none"
                   /\ Len(store'.tx_stack) = Depth - 1
                   /\ store'.snapshots = Pop(store.snapshots)
                   /\ Pop(store'.tx_stack) = SubSeq(store.tx_stack, 1, Depth - 2)
                   /\ DictKeys(merged) = DictKeys(parent) \cup DictKeys(child)
                   /\ \A k \in DictKeys(merged) :
                         DictGet(merged, k) =
                             IF k \in DictKeys(child) THEN DictGet(child, k)
                             ELSE DictGet(parent, k)
                   /\ store'.clock = store.clock
                   /\ store'.versions = store.versions
                   /\ \A k \in Keys : get(store', k, None) = get(store, k, None)
          ELSE last'.exc = "none" =>
                   \A k \in DictKeys(Top(store.tx_stack)) :
                       _latest_committed(store', k)[2] = DictGet(Top(store.tx_stack), k)]_vars

\* A nested commit that merged a non-empty child into the parent.
C6_Witness ==
    /\ last.op = "commit" /\ last.exc = "none" /\ last.n > 0
    /\ Depth = 1 /\ Len(Top(store.tx_stack)) > 0

\* C7: snapshot() agrees with get in every state: k is a key of snapshot()
\* exactly when get(k) is not absent, and then snapshot()[k] = get(k).
C7_SnapshotAgreesWithGet ==
    \A k \in Keys :
        /\ (k \in DOMAIN snapshot(store)) <=> (get(store, k, None) # None)
        /\ k \in DOMAIN snapshot(store) => snapshot(store)[k] = get(store, k, None)

\* C8: after flush_to_sqlite() on a connected engine with no open transaction
\* the rows of the mirror are the items of snapshot().
C8_FlushMirrorsSnapshot ==
    (last.op = "flush" /\ store.sqlite_conn /\ Depth = 0) =>
        /\ DOMAIN kv = DOMAIN snapshot(store)
        /\ \A k \in DOMAIN kv : kv[k] = snapshot(store)[k]

\* C9: after flush and close with no open transaction, a new engine over the
\* same mirror has the snapshot() the closed engine had, and get(k) returns the
\* flushed value of every flushed key.
C9_LoadAfterFlush ==
    [][(last'.op = "init" /\ store' # store /\ synced /\ Depth = 0
            /\ ~store.sqlite_conn) =>
          /\ DOMAIN snapshot(store') = DOMAIN snapshot(store)
          /\ \A k \in DOMAIN snapshot(store) :
                /\ snapshot(store')[k] = snapshot(store)[k]
                /\ get(store', k, None) = get(store, k, None)]_vars

\* C10: every chain is non-empty and its timestamps are strictly increasing
\* from the oldest entry to the newest.
C10_ChainsStrictlyIncreasing ==
    \A k \in DOMAIN store.versions :
        /\ Len(store.versions[k]) > 0
        /\ \A i, j \in 1..Len(store.versions[k]) :
              i < j => store.versions[k][i][1] < store.versions[k][j][1]

\* A chain of two versions the second of which an autocommit set appended.
C10_Witness ==
    /\ last.op = "set" /\ Depth = 0
    /\ Len(store.versions[last.key]) >= 2

RECURSIVE SumLen(_, _)
\* The number of version entries in the chains of the keys S.
SumLen(self, S) ==
    IF S = {} THEN 0
    ELSE LET k == CHOOSE x \in S : TRUE
         IN  Len(self.versions[k]) + SumLen(self, S \ {k})

\* The number of version entries in the whole store.
TotalEntries(self) == SumLen(self, DOMAIN self.versions)

\* The timestamps of the entries of k's chain from position i on.
StampsFrom(self, k, i) ==
    IF k \in DOMAIN self.versions
    THEN {self.versions[k][j][1] : j \in i..Len(self.versions[k])}
    ELSE {}

\* The timestamps of all version entries of the store.
Timestamps(self) == UNION {StampsFrom(self, k, 1) : k \in DOMAIN self.versions}

\* The timestamps of the entries a step appended.
NewStamps == UNION {StampsFrom(store', k, ChainLen(store, k) + 1) : k \in Keys}

\* C11: the clock never decreases across an operation of an engine; the
\* entries an operation appends are as many as the clock advanced and carry
\* exactly the clock values it passed through, so each committed write
\* advances the clock by one and is stamped with the new value. In every
\* state (a freshly constructed engine included: mirror rows and seed entries)
\* the clock is the number of version entries and their timestamps are the
\* values 1..clock: as many values as entries, so each is used once.
C11_ClockCountsWrites ==
    /\ [](/\ store.clock = TotalEntries(store)
          /\ Timestamps(store) = 1..store.clock)
    /\ [][last'.op # "init" =>
            /\ store'.clock >= store.clock
            /\ NewStamps = (store.clock + 1)..store'.clock]_vars

\* An outer commit that appended two overlay entries.
C11_Witness ==
    /\ last.op = "commit" /\ last.exc = "none" /\ last.n = 2 /\ Depth = 0
    /\ store.clock = 2

\* The entry an overlay holds for k, as a sequence: <<>> when it holds none.
Written(overlay, k) == IF k \in DictKeys(overlay) THEN <<DictGet(overlay, k)>> ELSE <<>>

Chain(self, k) == IF k \in DOMAIN self.versions THEN self.versions[k] ELSE <<>>

\* C13: a delete(k) outside any transaction appends <<fresh timestamp,
\* Tombstone>> to k's chain (creating it if needed), keeps every earlier entry
\* and every other chain, and get(k) is absent afterwards; a delete(k) inside a
\* transaction writes the Tombstone into the innermost overlay, leaves the
\* chains alone, and get(k) is absent afterwards whatever the chain holds at
\* the snapshot. In every state get returns the Tombstone for no key and
\* snapshot() contains it for none.
C13_DeleteTombstones ==
    /\ [](/\ \A k \in Keys : get(store, k, None) # DELETED
          /\ \A k \in DOMAIN snapshot(store) : snapshot(store)[k] # DELETED)
    /\ [][last'.op = "delete" =>
            LET k == last'.key IN
            /\ get(store', k, None) = None
            /\ Len(store'.tx_stack) > 0 =>
                  /\ Written(Top(store'.tx_stack), k) = <<DELETED>>
                  /\ store'.versions = store.versions
                  /\ store'.clock = store.clock
            /\ (Depth = 0 /\ store' # store) =>
                  /\ store'.clock \notin Timestamps(store)
                  /\ Chain(store', k) = Append(Chain(store, k), <<store'.clock, DELETED>>)
                  /\ \A j \in Keys \ {k} : Chain(store', j) = Chain(store, j)]_vars

\* A delete inside a transaction of a key whose committed value is visible at
\* the snapshot.
C13_Witness ==
    /\ last.op = "delete" /\ Depth > 0
    /\ _committed_at_or_before(store, last.key, Top(store.snapshots)) = "1"
    /\ get(store, last.key, None) = None

\* C14: flush_to_sqlite() never writes uncommitted data. Whatever is open, a
\* row a step writes or changes in the mirror is the payload of the latest
\* committed entry of its key's chain (as the TEXT column keeps it), and a row
\* a step removes is the row of a key whose latest committed entry is the
\* Tombstone; a pending overlay value or Tombstone reaches the mirror with no
\* step, and rollback() writes nothing to it.
C14_FlushWritesCommittedOnly ==
    [][(kv' # kv \/ last'.op = "rollback") =>
          /\ last'.op = "rollback" => kv' = kv
          /\ \A k \in Keys :
                LET latest == _latest_committed(store', k) IN
                /\ (k \in DOMAIN kv' /\ (k \notin DOMAIN kv \/ kv'[k] # kv[k])) =>
                      /\ latest # NoEntry
                      /\ latest[2] # DELETED
                      /\ kv'[k] = SqlText(latest[2])
                /\ (k \in DOMAIN kv /\ k \notin DOMAIN kv') =>
                      /\ latest # NoEntry
                      /\ latest[2] = DELETED]_vars

\* A flush ran while a transaction holds a pending Tombstone for a key, and
\* the mirror holds the key's committed value.
C14_Witness ==
    /\ last.op = "flush" /\ Depth > 0 /\ store.sqlite_conn
    /\ \E k \in DOMAIN kv :
          /\ Written(Top(store.tx_stack), k) = <<DELETED>>
          /\ _latest_committed(store, k) # NoEntry
          /\ _latest_committed(store, k)[2] = "1"
          /\ kv[k] = "'1'"

\* The place of key k among the items of a dict.
ItemIndex(d, k) == CHOOSE i \in DOMAIN d : d[i][1] = k

\* Some key of the overlay has a latest committed entry stamped after snap_ts.
NewerCommitted(self, overlay, snap_ts) ==
    \E k \in DictKeys(overlay) :
        /\ Chain(self, k) # <<>>
        /\ Chain(self, k)[Len(Chain(self, k))][1] > snap_ts

\* What an outer commit() owes: called on engine before (one open frame), it
\* left engine after and raised exc ("none": it returned).
OuterCommitOutcome(before, after, exc) ==
    LET top == Top(before.tx_stack)
        conflict == NewerCommitted(before, top, Top(before.snapshots))
    IN  /\ exc = (IF conflict THEN "WriteConflict" ELSE "none")
        /\ after.tx_stack = <<>>
        /\ after.snapshots = <<>>
        /\ conflict =>
              /\ after.versions = before.versions
              /\ after.clock = before.clock
        /\ ~conflict =>
              /\ after.clock = before.clock + Len(top)
              /\ \A k \in Keys :
                    Chain(after, k) =
                        IF k \in DictKeys(top)
                        THEN Append(Chain(before, k),
                                    <<before.clock + ItemIndex(top, k), DictGet(top, k)>>)
                        ELSE Chain(before, k)

\* The engine as it would be had its one open frame begun when the clock read ts.
BegunAt(self, ts) == [self EXCEPT !.snapshots = <<ts>>]

\* C15: an outer commit raises WriteConflict exactly when some key of the
\* popped overlay has a latest committed entry stamped strictly after the
\* frame's snapshot_ts, and raises nothing else. Both stacks are empty after
\* it either way. On WriteConflict no chain and not the clock changed; without
\* it every overlay entry was appended to its key's chain, in overlay order,
\* one clock tick each, and no other chain changed. This holds of every outer
\* commit step, and of commit() applied to the engine of any state with one
\* open frame when that frame's snapshot_ts is set back to any earlier clock
\* value.
C15_WriteConflictExactlyWhen ==
    /\ [][(last'.op = "commit" /\ Depth = 1 /\ store' # store) =>
            OuterCommitOutcome(store, store', last'.exc)]_vars
    /\ [](Depth = 1 =>
            \A ts \in 0..store.clock :
                OuterCommitOutcome(BegunAt(store, ts),
                                   commit(BegunAt(store, ts)).self,
                                   commit(BegunAt(store, ts)).exc))

\* An outer commit went through on a key whose latest committed entry was
\* stamped exactly snapshot_ts: the entry before the appended one carries the
\* clock value the frame began at.
C15_Witness ==
    /\ last.op = "commit" /\ last.exc = "none" /\ last.n >= 1 /\ Depth = 0
    /\ \E k \in DOMAIN store.versions :
          /\ Len(store.versions[k]) >= 2
          /\ store.versions[k][Len(store.versions[k])][1] > store.clock - last.n
          /\ store.versions[k][Len(store.versions[k]) - 1][1] = store.clock - last.n

\* C16: reads inside a nested transaction use the innermost frame's
\* snapshot_ts, and a nested transaction observes a write committed between
\* the outer begin() and the inner begin(): after begin() by A, set(k, v) by a
\* second actor B and a nested begin(), the inner frame's snapshot_ts is
\* greater than the outer frame's, k is not in the outer overlay, and the inner
\* get(k) returns the committed v.
C16_NestedSeesInterimCommits ==
    [][(scene = "A:begin B:set" /\ last'.op = "begin" /\ store' # store) =>
          /\ Top(store'.snapshots) > store'.snapshots[1]
          /\ last.key \notin DictKeys(store'.tx_stack[1])
          /\ _latest_committed(store', last.key) # NoEntry
          /\ get(store', last.key, None) = _latest_committed(store', last.key)[2]]_vars

\* Sequence s is an initial part of sequence t.
IsPrefix(s, t) == Len(s) <= Len(t) /\ SubSeq(t, 1, Len(s)) = s

\* C17: version chains are append-only. Across every operation of an engine
\* (set, delete, get, begin, commit, rollback, snapshot, flush, close, and the
\* handlers made of them) a key that has a chain keeps having one, and every
\* key's chain before the operation is an initial part of its chain after it.
C17_ChainsAppendOnly ==
    [][last'.op # "init" =>
          \A k \in Keys :
              /\ k \in DOMAIN store.versions => k \in DOMAIN store'.versions
              /\ IsPrefix(Chain(store, k), Chain(store', k))]_vars

\* An autocommit delete extended a chain that held a value.
C17_Witness ==
    /\ last.op = "delete" /\ Depth = 0
    /\ Len(Chain(store, last.key)) = 2
    /\ Chain(store, last.key)[1][2] = "1"
    /\ Chain(store, last.key)[2][2] = DELETED

\* The engines a handler's call before its flush can leave: store.set,
\* store.delete or store.commit (api.py:12, 23, 39), or no call at all.
BeforeFlush ==
    {store, commit(store).self}
        \cup {set(store, k, v) : k \in Keys, v \in Values}
        \cup {delete(store, k) : k \in Keys}

\* C18: once the engine is closed, no step writes the mirror, whatever was
\* committed in memory since the last flush, and the engine stays closed; a
\* flush_to_sqlite() on the closed engine leaves the engine as the call before
\* it in the same handler left it (unchanged when it is called alone); close()
\* leaves clock, chains and both stacks as they were and the connection
\* released, and a second close() changes nothing at all.
C18_ClosedFlushIsNoOp ==
    [][last'.op # "init" =>
          /\ ~store.sqlite_conn =>
                /\ kv' = kv
                /\ ~store'.sqlite_conn
                /\ last'.op = "flush" => store' \in BeforeFlush
          /\ last'.op = "close" =>
                /\ ~store'.sqlite_conn
                /\ store'.clock = store.clock
                /\ store'.versions = store.versions
                /\ store'.tx_stack = store.tx_stack
                /\ store'.snapshots = store.snapshots
                /\ ~store.sqlite_conn => store' = store]_vars

\* A flush on an engine that was connected and is closed, while the mirror
\* lacks a value committed in memory.
C18_Witness ==
    /\ last.op = "flush" /\ store.sqlite_path /\ ~store.sqlite_conn
    /\ \E k \in DOMAIN store.versions :
          /\ _latest_committed(store, k)[2] = "1"
          /\ k \notin DOMAIN kv

\* C19: while the transaction stack is non-empty, and stays so, no operation
\* changes the clock or a version chain. So in every state the snapshot_ts of
\* every open frame is the current clock, no committed entry is stamped after
\* the snapshot_ts of any open frame, and no commit has raised WriteConflict:
\* the conflict check of an outer commit never fails on one engine.
C19_NoCommitWhileOpen ==
    /\ [](/\ \A i \in DOMAIN store.snapshots :
                /\ store.snapshots[i] = store.clock
                /\ \A ts \in Timestamps(store) : ts <= store.snapshots[i]
          /\ last.exc # "WriteConflict"
          /\ Depth > 0 =>
                ~NewerCommitted(store, Top(store.tx_stack), Top(store.snapshots)))
    /\ [][(Depth > 0 /\ Len(store'.tx_stack) > 0 /\ last'.op # "init") =>
            /\ store'.clock = store.clock
            /\ store'.versions = store.versions]_vars

\* A set inside a nested transaction of an engine that holds committed
\* versions: the write is pending and both frames began at the current clock.
C19_Witness ==
    /\ last.op = "set" /\ Depth = 2 /\ store.clock >= 1
    /\ Written(Top(store.tx_stack), last.key) # <<>>
    /\ store.snapshots = <<store.clock, store.clock>>

\* C20: in every state the overlay stack and the snapshot-timestamp stack have
\* the same length, and in_transaction() is true exactly when that depth is
\* greater than zero; the stacks are equally long also after a commit() that
\* raises (NoActiveTransaction on this engine; WriteConflict on the engine with
\* its one frame's snapshot_ts set back). begin() raises the depth by one,
\* a commit() or rollback() on a non-empty stack lowers it by one and on an
\* empty stack leaves it at zero, set, delete and close leave it unchanged, and
\* so does flush (after the commit of POST /commit, one lower than before it).
C20_StacksInStep ==
    /\ [](/\ Len(store.tx_stack) = Len(store.snapshots)
          /\ in_transaction(store) <=> Depth > 0
          /\ Len(commit(store).self.tx_stack) = Len(commit(store).self.snapshots)
          /\ Depth = 1 =>
                \A ts \in 0..store.clock :
                    /\ commit(BegunAt(store, ts)).self.tx_stack = <<>>
                    /\ commit(BegunAt(store, ts)).self.snapshots = <<>>)
    /\ [][last'.op # "init" =>
            /\ (last'.op = "begin" /\ store' # store) =>
                  Len(store'.tx_stack) = Depth + 1
            /\ (last'.op \in {"commit", "rollback"} /\ Depth > 0 /\ store' # store) =>
                  Len(store'.tx_stack) = Depth - 1
            /\ (last'.op \in {"commit", "rollback"} /\ Depth = 0) =>
                  Len(store'.tx_stack) = 0
            /\ last'.op \in {"set", "delete", "close"} =>
                  Len(store'.tx_stack) = Depth
            /\ last'.op = "flush" =>
                  \/ Len(store'.tx_stack) = Depth
                  \/ /\ store' = commit(store).self
                     /\ Len(store'.tx_stack) = Depth - 1]_vars

\* A rollback of a nested transaction left one frame open.
C20_Witness ==
    /\ last.op = "rollback" /\ last.exc = "none"
    /\ Len(store.tx_stack) = 1 /\ Len(store.snapshots) = 1
    /\ in_transaction(store)

====
